---- MODULE Spec2Model ----
(***************************************************************************)
(* Model of FlowModule.solve_adjoint_state and FlowModule.model_step       *)
(* (src/models/flow_module_adjointmatching.py).                            *)
(*                                                                         *)
(* Tensor elements are IEEE-754 style values: a finite rational, NaN,      *)
(* +infinity or -infinity.  Tensors of shape [batch, residues, 3] are      *)
(* functions Ex -> Res -> Coord -> value; element-wise torch operations    *)
(* are applied element by element with the broadcasting the code writes    *)
(* (`[..., None]`), on the shapes the code's comments give.  The reward,   *)
(* which the code computes per example and residue, scales the element of  *)
(* the same example and residue.  The rotation state is carried in the     *)
(* same layout as the translation state; so3_utils.calc_rot_vf, the model  *)
(* and all_atom.to_atom37 are external and their results are inputs.       *)
(***************************************************************************)
EXTENDS Integers, Sequences, FiniteSets, TLC

(***************************************************************************)
(* Bounds of the model.                                                    *)
(***************************************************************************)
\* number of examples in the batch
MaxBatch == 2
\* number of residues per example
MaxRes == 2
\* finite values whose magnitude exceeds FloatMax overflow to +/-infinity
FloatMax == 100
\* precision: denominators are kept below 2 * FloatDen
FloatDen == 100
\* the schedule is evaluated at the times 0/TimeDen .. TimeDen/TimeDen
TimeDen == 12

(***************************************************************************)
(* Program constants.                                                      *)
(***************************************************************************)
\* torch.linspace(1.0, 0.0, 20): number of grid points
NumTimesteps == 20
\* torch.clamp(..., max=5)
ClampMax == 5
\* last axis of x_t: [batch_size, num_residues, 3]
NumCoords == 3
\* all_atom.to_atom37(...)[:, :, :3]: backbone atoms kept per residue
NumBBAtoms == 3

Ex == 1..MaxBatch
Res == 1..MaxRes
Coord == 1..NumCoords

(***************************************************************************)
(* Floating point values.                                                  *)
(***************************************************************************)
Abs(i) == IF i < 0 THEN -i ELSE i

RECURSIVE GCD(_, _)
GCD(a, b) == IF b = 0 THEN a ELSE GCD(b, a % b)

NaN == [k |-> "nan", n |-> 0, d |-> 1]
PInf == [k |-> "pinf", n |-> 0, d |-> 1]
NInf == [k |-> "ninf", n |-> 0, d |-> 1]

\* n/d in lowest terms
Reduced(n, d) ==
    IF n = 0 THEN [k |-> "fin", n |-> 0, d |-> 1]
    ELSE LET g == GCD(Abs(n), d) IN [k |-> "fin", n |-> n \div g, d |-> d \div g]

\* the finite value n/d (d > 0) as a float: a magnitude above FloatMax overflows
\* to an infinity, a denominator of 2 * FloatDen or more is rounded down
Fin(n, d) ==
    IF Abs(n) > FloatMax * d
    THEN (IF n > 0 THEN PInf ELSE NInf)
    ELSE LET r == Reduced(n, d)
             q == r.d \div FloatDen
         IN  IF q <= 1 THEN r ELSE Reduced(r.n \div q, r.d \div q)

F(i) == Fin(i, 1)

IsNaN(x) == x.k = "nan"
IsInf(x) == x.k \in {"pinf", "ninf"}
IsFinite(x) == x.k = "fin"

\* -1, 0, 1 for negative, zero, positive (NaN excluded by the callers)
Sign(x) ==
    CASE x.k = "pinf" -> 1
      [] x.k = "ninf" -> -1
      [] OTHER -> IF x.n > 0 THEN 1 ELSE IF x.n < 0 THEN -1 ELSE 0

InfOfSign(s) == IF s > 0 THEN PInf ELSE NInf

FNeg(x) ==
    CASE x.k = "nan" -> NaN
      [] x.k = "pinf" -> NInf
      [] x.k = "ninf" -> PInf
      [] OTHER -> Fin(-x.n, x.d)

FAdd(x, y) ==
    CASE IsNaN(x) \/ IsNaN(y) -> NaN
      [] IsInf(x) /\ IsInf(y) -> IF x.k = y.k THEN x ELSE NaN
      [] IsInf(x) -> x
      [] IsInf(y) -> y
      [] OTHER -> Fin(x.n * y.d + y.n * x.d, x.d * y.d)

FSub(x, y) == FAdd(x, FNeg(y))

FMul(x, y) ==
    CASE IsNaN(x) \/ IsNaN(y) -> NaN
      [] IsInf(x) \/ IsInf(y) ->
            IF Sign(x) * Sign(y) = 0 THEN NaN ELSE InfOfSign(Sign(x) * Sign(y))
      [] OTHER -> Fin(x.n * y.n, x.d * y.d)

FDiv(x, y) ==
    CASE IsNaN(x) \/ IsNaN(y) -> NaN
      [] IsInf(x) /\ IsInf(y) -> NaN
      [] IsInf(x) -> IF Sign(y) < 0 THEN FNeg(x) ELSE x
      [] IsInf(y) -> F(0)
      [] y.n = 0 -> IF x.n = 0 THEN NaN ELSE InfOfSign(x.n)
      [] OTHER -> IF y.n > 0 THEN Fin(x.n * y.d, x.d * y.n)
                  ELSE Fin(-(x.n * y.d), x.d * (-y.n))

\* x < y, false when either is NaN
FLt(x, y) ==
    CASE IsNaN(x) \/ IsNaN(y) -> FALSE
      [] x.k = "pinf" -> FALSE
      [] y.k = "ninf" -> FALSE
      [] x.k = "ninf" -> TRUE
      [] y.k = "pinf" -> TRUE
      [] OTHER -> x.n * y.d < y.n * x.d

FGt(x, y) == FLt(y, x)
FLe(x, y) == ~IsNaN(x) /\ ~IsNaN(y) /\ ~FLt(y, x)

\* torch.clamp(x, max=m): NaN propagates
FClampMax(x, m) == IF IsNaN(x) THEN NaN ELSE IF FGt(x, m) THEN m ELSE x

RECURSIVE ISqrtFrom(_, _)
ISqrtFrom(i, r) == IF (r + 1) * (r + 1) > i THEN r ELSE ISqrtFrom(i, r + 1)

\* torch.sqrt, rounded down to a multiple of 1/SqrtScale
SqrtScale == 8
FSqrt(x) ==
    CASE IsNaN(x) -> NaN
      [] x.k = "ninf" -> NaN
      [] x.k = "pinf" -> PInf
      [] x.n < 0 -> NaN
      [] OTHER -> Fin(ISqrtFrom((x.n * SqrtScale * SqrtScale) \div x.d, 0), SqrtScale)

RECURSIVE FSumSeq(_)
FSumSeq(s) == IF s = <<>> THEN F(0) ELSE FAdd(Head(s), FSumSeq(Tail(s)))


(***************************************************************************)
(* Tensors.                                                                *)
(***************************************************************************)
\* a [batch, residues, 3] tensor filled with v (torch.ones_like and the like)
Full(v) == [b \in Ex |-> [n \in Res |-> [c \in Coord |-> v]]]

\* torch.sum(loss_mask, dim=-1)
RECURSIVE MaskSumTo(_, _)
MaskSumTo(m, n) == IF n = 0 THEN 0 ELSE m[n] + MaskSumTo(m, n - 1)
MaskSum(m) == MaskSumTo(m, MaxRes)

\* torch.sum(v * mask[..., None], dim=(-1, -2)) of one example: v is Res -> Coord -> value
RECURSIVE SumCoordsTo(_, _)
SumCoordsTo(v, c) == IF c = 0 THEN F(0) ELSE FAdd(SumCoordsTo(v, c - 1), v[c])
RECURSIVE MaskedSumTo(_, _, _)
MaskedSumTo(v, m, n) ==
    IF n = 0 THEN F(0)
    ELSE FAdd(MaskedSumTo(v, m, n - 1),
              SumCoordsTo([c \in Coord |-> FMul(v[n][c], F(m[n]))], NumCoords))
MaskedSum(v, m) == MaskedSumTo(v, m, MaxRes)

(***************************************************************************)
(* The time grid of solve_adjoint_state.                                   *)
(***************************************************************************)
\* torch.linspace(1.0, 0.0, 20)[k], k = 0 .. 19
Timestep(k) == Fin((NumTimesteps - 1) - k, NumTimesteps - 1)
\* dt = timesteps[1] - timesteps[0]
Dt == FSub(Timestep(1), Timestep(0))

(***************************************************************************)
(* Drift closures.  A drift is a record:                                   *)
(*   kind "trans": trans_drift of model_step, closed over pred and reward  *)
(*   kind "field": a caller-supplied field (c0 + g * x) * scale; rot_drift *)
(*                 of model_step is such a field, the external rotation    *)
(*                 vector field scaled by the reward                       *)
(***************************************************************************)
\* drift(x, t) at element (b, n, c); t holds one time per example
DriftAt(drift, x, t, b, n, c) ==
    IF drift.kind = "trans"
    THEN \* (pred_trans_1 - x) / (1 - t[..., None]) * reward[..., None, None]
         FMul(FDiv(FSub(drift.pred[b][n][c], x[b][n][c]), FSub(F(1), t[b])),
              drift.scale[b][n])
    ELSE FMul(FAdd(drift.c0[b][n], FMul(drift.g[b][n], x[b][n][c])),
              drift.scale[b][n])

\* torch.autograd.grad((drift(x, t) * mask[..., None]).sum(), x) at (b, n, c):
\* the backward pass through "* mask", "* reward", "/ (1 - t)" and "pred - x"
GradAt(drift, x, t, mask, b, n, c) ==
    IF drift.kind = "trans"
    THEN FNeg(FDiv(FMul(F(mask[b][n]), drift.scale[b][n]), FSub(F(1), t[b])))
    ELSE FMul(FMul(F(mask[b][n]), drift.scale[b][n]), drift.g[b][n])


(***************************************************************************)
(* State.                                                                  *)
(***************************************************************************)
VARIABLES
    pc,              \* position in model_step / solve_adjoint_state
    call,            \* who called solve_adjoint_state: "trans", "rot", "direct"
    \* solve_adjoint_state: arguments and locals
    drift, x_t, t, mask, a_t, curr_x, k, adjoint_states, eval_times, result,
    \* model_step: noisy_batch and training_cfg
    res_mask, diffuse_mask, r3_t, so3_t, trans_t, training_cfg,
    \* model_step: locals
    loss_mask, model_calls, pred_trans_1, bond_lengths, validity_reward,
    diversity_reward, reward, eta_t, sigma_t, trans_adjoint, trans_loss,
    rot_adjoint, rots_vf_loss, auxiliary_loss, se3_vf_loss, outcome

solverVars == <<drift, x_t, t, mask, a_t, curr_x, k, adjoint_states, eval_times, result>>
batchVars == <<res_mask, diffuse_mask, r3_t, so3_t, trans_t, training_cfg>>
rewardVars == <<pred_trans_1, bond_lengths, validity_reward, diversity_reward, reward>>
lossVars == <<eta_t, sigma_t, trans_adjoint, trans_loss, rot_adjoint, rots_vf_loss,
              auxiliary_loss, se3_vf_loss>>
vars == <<pc, call, solverVars, batchVars, loss_mask, model_calls, rewardVars,
          lossVars, outcome>>

\* a local that has not been assigned yet
None == <<>>

(***************************************************************************)
(* solve_adjoint_state(drift, x_t, t, mask)                                *)
(***************************************************************************)
\* a_t = -torch.ones_like(x_t); a_t = a_t * mask[..., None]
TerminalValue == F(-1)
InitialCostate(m) ==
    [b \in Ex |-> [n \in Res |-> [c \in Coord |-> FMul(TerminalValue, F(m[b][n]))]]]

\* the grid time mistaken for an offset from the caller's time
TCurrFromCaller(kk) == [b \in Ex |-> FMul(Timestep(kk), t[b])]

\* t_curr.expand_as(t): the grid time, one copy per example
TCurr(kk) == [b \in Ex |-> Timestep(kk)]

\* curr_drift = drift(curr_x, t_curr) * mask[..., None]
CurrDrift(d, x, kk, m) ==
    [b \in Ex |-> [n \in Res |-> [c \in Coord |->
        FMul(DriftAt(d, x, TCurr(kk), b, n, c), F(m[b][n]))]]]

\* the costate step with the Jacobian contraction replaced by the costate itself
CostateStepNoJacobian(d, x, kk, m, a) ==
    [b \in Ex |-> [n \in Res |-> [c \in Coord |->
        FMul(FSub(a[b][n][c], FMul(Dt, a[b][n][c])), F(m[b][n]))]]]

\* a_t = a_t - dt * einsum(grad_b, a_t); a_t = a_t * mask[..., None]
CostateStep(d, x, kk, m, a) ==
    [b \in Ex |-> [n \in Res |-> [c \in Coord |->
        FMul(FSub(a[b][n][c],
                  FMul(Dt, FMul(GradAt(d, x, TCurr(kk), m, b, n, c), a[b][n][c]))),
             F(m[b][n]))]]]

\* dx = dt * curr_drift; curr_x = curr_x + dx
StateStep(d, x, kk, m) ==
    LET cd == CurrDrift(d, x, kk, m)
    IN  [b \in Ex |-> [n \in Res |-> [c \in Coord |->
            FAdd(x[b][n][c], FMul(Dt, cd[b][n][c]))]]]

\* lines 57-66: everything before the loop
SolveBegin ==
    /\ pc = "solve_begin"
    /\ a_t' = InitialCostate(mask)
    /\ curr_x' = x_t
    /\ adjoint_states' = <<a_t'>>
    /\ k' = 0
    /\ pc' = "solve_loop"
    /\ UNCHANGED <<call, drift, x_t, t, mask, eval_times, result, batchVars,
                   loss_mask, model_calls, rewardVars, lossVars, outcome>>

\* lines 69-90: one iteration over zip(timesteps[:-1], timesteps[1:])
SolveStep ==
    /\ pc = "solve_loop"
    /\ k < NumTimesteps - 1
    /\ eval_times' = Append(eval_times, TCurr(k))
    /\ a_t' = CostateStep(drift, curr_x, k, mask, a_t)
    /\ adjoint_states' = Append(adjoint_states, a_t')
    /\ curr_x' = StateStep(drift, curr_x, k, mask)
    /\ k' = k + 1
    /\ UNCHANGED <<pc, call, drift, x_t, t, mask, result, batchVars,
                   loss_mask, model_calls, rewardVars, lossVars, outcome>>

\* line 92: return adjoint_states[-1], back in the caller
SolveReturn ==
    /\ pc = "solve_loop"
    /\ k = NumTimesteps - 1
    /\ result' = adjoint_states[Len(adjoint_states)]
    /\ pc' = CASE call = "trans" -> "trans_loss"
               [] call = "rot" -> "rot_loss"
               [] OTHER -> "solve_done"
    /\ UNCHANGED <<call, drift, x_t, t, mask, a_t, curr_x, k, adjoint_states,
                   eval_times, batchVars, loss_mask, model_calls, rewardVars,
                   lossVars, outcome>>


(***************************************************************************)
(* Inputs.                                                                 *)
(***************************************************************************)
\* one example's mask over its residues
MaskRow(kind) ==
    CASE kind = "full" -> [n \in Res |-> 1]
      [] kind = "first" -> [n \in Res |-> IF n = 1 THEN 1 ELSE 0]
      [] kind = "tail" -> [n \in Res |-> IF n = 1 THEN 0 ELSE 1]
      [] OTHER -> [n \in Res |-> 0]

\* a batch mask: the first example has one pattern, the others share one
BatchMask(first, rest) == [b \in Ex |-> IF b = 1 THEN MaskRow(first) ELSE MaskRow(rest)]

MaskKinds == {"full", "first", "none"}

\* one time per example: the first example has one time, the others share one
BatchTime(first, rest) == [b \in Ex |-> IF b = 1 THEN first ELSE rest]

Quarter == Fin(1, 4)
ThreeQuarters == Fin(3, 4)
Half == Fin(1, 2)

\* caller-supplied fields for a direct call of solve_adjoint_state
PerRes(v) == [b \in Ex |-> [n \in Res |-> v]]
FieldDrift(c0, g, scale) ==
    [kind |-> "field", pred |-> None, c0 |-> c0, g |-> g, scale |-> scale]
TransDrift(pred, rew) ==
    [kind |-> "trans", pred |-> pred, c0 |-> None, g |-> None, scale |-> rew]

DirectDrifts ==
    { FieldDrift(PerRes(F(0)), PerRes(F(0)), PerRes(F(1))),
      FieldDrift(PerRes(F(19)), PerRes(F(0)), PerRes(F(1))),
      FieldDrift(PerRes(F(0)), PerRes(F(19)), PerRes(F(1))),
      FieldDrift(PerRes(F(19)), PerRes(F(-19)), PerRes(F(1))),
      FieldDrift([b \in Ex |-> [n \in Res |-> IF n = 1 THEN F(0) ELSE PInf]],
                 [b \in Ex |-> [n \in Res |-> IF n = 1 THEN F(0) ELSE PInf]],
                 PerRes(F(1))) }

\* drift returns zero at every element
ZeroDrift(d) ==
    /\ d.kind = "field"
    /\ \A b \in Ex, n \in Res : d.c0[b][n] = F(0) /\ d.g[b][n] = F(0)

(***************************************************************************)
(* model_step(noisy_batch)                                                 *)
(***************************************************************************)
ValueError(msg) == [kind |-> "ValueError", msg |-> msg]

\* loss_mask = noisy_batch['res_mask'] * noisy_batch['diffuse_mask']
LossMask(rm, dm) == [b \in Ex |-> [n \in Res |-> rm[b][n] * dm[b][n]]]

\* torch.all in place of torch.any
EmptyBatchAll(m) == \A b \in Ex : MaskSum(m[b]) < 1

\* torch.any(torch.sum(loss_mask, dim=-1) < 1)
EmptyBatch(m) == \E b \in Ex : MaskSum(m[b]) < 1

\* lines 141-144
MaskCheck ==
    /\ pc = "start"
    /\ loss_mask' = LossMask(res_mask, diffuse_mask)
    /\ IF EmptyBatch(loss_mask')
       THEN /\ outcome' = ValueError("Empty batch encountered")
            /\ pc' = "raised"
       ELSE /\ outcome' = outcome
            /\ pc' = "model"
    /\ UNCHANGED <<call, solverVars, batchVars, model_calls, rewardVars, lossVars>>

\* what the external collaborators return for one batch: the backbone atoms
\* of all_atom.to_atom37(pred_trans_1, pred_rotmats_1)[:, :, :3], given by the
\* spacings of consecutive atoms of each residue and the mean pairwise distance
Geometry(kind) ==
    CASE kind = "native" ->
            [bonds |-> [b \in Ex |-> [n \in Res |-> <<Fin(3, 2), Fin(3, 2)>>]],
             dists |-> [b \in Ex |-> F(2)]]
      [] kind = "strained" ->
            [bonds |-> [b \in Ex |-> [n \in Res |->
                          IF n = 1 THEN <<Fin(3, 2), F(2)>> ELSE <<Fin(3, 2), Fin(3, 2)>>]],
             dists |-> [b \in Ex |-> F(3)]]
      [] OTHER ->
            [bonds |-> [b \in Ex |-> [n \in Res |->
                          IF b = 1 THEN <<F(0), F(0)>> ELSE <<Fin(3, 2), Fin(3, 2)>>]],
             dists |-> [b \in Ex |-> IF b = 1 THEN F(0) ELSE F(2)]]

GeometryKinds == {"native", "strained", "collapsed"}

\* lines 146-153 and 159-164: the model and the atom reconstruction are external
RunModel ==
    /\ pc = "model"
    /\ model_calls' = model_calls + 1
    /\ pred_trans_1' \in {Full(F(1)), Full(F(0))}
    /\ \E g \in GeometryKinds :
          /\ bond_lengths' = Geometry(g).bonds
          /\ diversity_reward' = Geometry(g).dists
    /\ pc' = "reward"
    /\ UNCHANGED <<call, solverVars, batchVars, loss_mask, validity_reward, reward,
                   lossVars, outcome>>

\* valid_bonds = logical_and(bond_lengths > 1.0, bond_lengths < 2.0), as float
ValidBond(len) == IF FGt(len, F(1)) /\ FLt(len, F(2)) THEN 1 ELSE 0

\* validity_reward = valid_bonds.float().mean(dim=-1): the mean over the last
\* axis of bond_lengths [batch, residues, 2], one value per example and residue
RECURSIVE CountValid(_, _)
CountValid(lens, j) == IF j = 0 THEN 0 ELSE ValidBond(lens[j]) + CountValid(lens, j - 1)
ValidityReward(bl) ==
    [b \in Ex |-> [n \in Res |-> Fin(CountValid(bl[b][n], Len(bl[b][n])), Len(bl[b][n]))]]

\* reward = 2.0 * diversity_reward + 1.0 * validity_reward
DiversityWeight == 2
ValidityWeight == 1
Reward(dv, vr) ==
    [b \in Ex |-> [n \in Res |->
        FAdd(FMul(F(DiversityWeight), dv[b]), FMul(F(ValidityWeight), vr[b][n]))]]

\* lines 155-167
ComputeReward ==
    /\ pc = "reward"
    /\ validity_reward' = ValidityReward(bond_lengths)
    /\ reward' = Reward(diversity_reward, validity_reward')
    /\ pc' = "schedule"
    /\ UNCHANGED <<call, solverVars, batchVars, loss_mask, model_calls, pred_trans_1,
                   bond_lengths, diversity_reward, lossVars, outcome>>

\* eta_t with the quotient taken over alpha_t * beta_t
EtaWrongPrecedence(tv) ==
    LET alpha_t == tv
        beta_t == FSub(F(1), tv)
        alpha_dot == F(1)
        beta_dot == FNeg(F(1))
    IN  FMul(beta_t, FSub(FDiv(alpha_dot, FMul(alpha_t, beta_t)), beta_dot))

\* lines 176-180: eta_t = beta_t * (alpha_dot / alpha_t * beta_t - beta_dot)
Eta(tv) ==
    LET alpha_t == tv
        beta_t == FSub(F(1), tv)
        alpha_dot == F(1)
        beta_dot == FNeg(F(1))
    IN  FMul(beta_t, FSub(FMul(FDiv(alpha_dot, alpha_t), beta_t), beta_dot))

\* line 181: sigma_t = torch.sqrt(2 * eta_t)
Sigma(tv) == FSqrt(FMul(F(2), Eta(tv)))

\* lines 170-181
ComputeSchedule ==
    /\ pc = "schedule"
    /\ eta_t' = [b \in Ex |-> Eta(r3_t[b])]
    /\ sigma_t' = [b \in Ex |-> Sigma(r3_t[b])]
    /\ pc' = "trans_solve"
    /\ UNCHANGED <<call, solverVars, batchVars, loss_mask, model_calls, rewardVars,
                   trans_adjoint, trans_loss, rot_adjoint, rots_vf_loss,
                   auxiliary_loss, se3_vf_loss, outcome>>

\* lines 184-188: solve_adjoint_state(trans_drift, trans_t, r3_t, loss_mask)
CallTransSolve ==
    /\ pc = "trans_solve"
    /\ call' = "trans"
    /\ drift' = TransDrift(pred_trans_1, reward)
    /\ x_t' = trans_t
    /\ t' = r3_t
    /\ mask' = loss_mask
    /\ pc' = "solve_begin"
    /\ UNCHANGED <<a_t, curr_x, k, adjoint_states, eval_times, result, batchVars,
                   loss_mask, model_calls, rewardVars, lossVars, outcome>>

\* weight * sum(term**2 * loss_mask[..., None], dim=(-1, -2)) / sum(loss_mask, dim=-1)
VfLoss(weight, vf, sig, adj, m) ==
    [b \in Ex |->
        LET term == [n \in Res |-> [c \in Coord |->
                        FAdd(vf[b][n][c], FMul(sig[b], adj[b][n][c]))]]
            sq == [n \in Res |-> [c \in Coord |-> FMul(term[n][c], term[n][c])]]
        IN  FDiv(FMul(weight, MaskedSum(sq, m[b])), F(MaskSum(m[b])))]

\* torch.clamp(loss, max=5), element by element
ClampLoss(v) == FClampMax(v, F(ClampMax))

\* lines 190-197: the instantaneous drift, the adjoint term and the clamped loss
TransLoss ==
    /\ pc = "trans_loss"
    /\ trans_adjoint' = result
    /\ eval_times' = Append(eval_times, r3_t)
    /\ LET trans_vf == [b \in Ex |-> [n \in Res |-> [c \in Coord |->
                           DriftAt(drift, trans_t, r3_t, b, n, c)]]]
           raw == VfLoss(training_cfg.translation_loss_weight, trans_vf, sigma_t,
                         result, loss_mask)
       IN  trans_loss' = [b \in Ex |-> ClampLoss(raw[b])]
    /\ pc' = "rot_solve"
    /\ UNCHANGED <<call, drift, x_t, t, mask, a_t, curr_x, k, adjoint_states, result,
                   batchVars, loss_mask, model_calls, rewardVars, eta_t, sigma_t,
                   rot_adjoint, rots_vf_loss, auxiliary_loss, se3_vf_loss, outcome>>

\* lines 199-203: solve_adjoint_state(rot_drift, rotmats_t, so3_t, loss_mask);
\* so3_utils.calc_rot_vf is external: its value and its Jacobian are inputs
CallRotSolve ==
    /\ pc = "rot_solve"
    /\ call' = "rot"
    /\ \E v \in {F(1), F(90)} : drift' = FieldDrift(PerRes(v), PerRes(F(0)), reward)
    /\ x_t' = Full(F(0))
    /\ t' = so3_t
    /\ mask' = loss_mask
    /\ eval_times' = <<>>
    /\ pc' = "solve_begin"
    /\ UNCHANGED <<a_t, curr_x, k, adjoint_states, result, batchVars,
                   loss_mask, model_calls, rewardVars, lossVars, outcome>>

\* lines 205-212: the rotation loss is not clamped
RotLoss ==
    /\ pc = "rot_loss"
    /\ rot_adjoint' = result
    /\ LET rot_vf == [b \in Ex |-> [n \in Res |-> [c \in Coord |->
                         DriftAt(drift, x_t, so3_t, b, n, c)]]]
           rot_sigma_t == [b \in Ex |-> FSqrt(FMul(F(2), so3_t[b]))]
       IN  rots_vf_loss' = VfLoss(training_cfg.rotation_loss_weights, rot_vf,
                                  rot_sigma_t, result, loss_mask)
    /\ pc' = "aux"
    /\ UNCHANGED <<call, solverVars, batchVars, loss_mask, model_calls, rewardVars,
                   eta_t, sigma_t, trans_adjoint, trans_loss, auxiliary_loss,
                   se3_vf_loss, outcome>>

\* line 216: training_cfg.aux_loss_weight > 0 and r3_t[0, 0] > 0.5
AuxEnabled(cfg, times) == FGt(cfg.aux_loss_weight, F(0)) /\ FGt(times[1], Half)

\* lines 222-229; sqerr[b][n] is sum((gt_bb_atoms - pred_bb_atoms)**2) of a residue
AuxLossOf(cfg, sqerr, m, rew) ==
    [b \in Ex |-> [n \in Res |->
        LET loss_denom == F(MaskSum(m[b]) * NumBBAtoms)
            masked == [r \in Res |-> [c \in Coord |-> IF c = 1 THEN sqerr[b][r] ELSE F(0)]]
            bb_atom_loss == FDiv(MaskedSum(masked, m[b]), loss_denom)
        IN  ClampLoss(FMul(FMul(bb_atom_loss, cfg.aux_loss_weight), rew[b][n]))]]

\* lines 215-229: auxiliary_loss stays 0.0 unless the branch is taken
AuxLoss ==
    /\ pc = "aux"
    /\ \E e \in {F(3), F(90)} :
          auxiliary_loss' = IF AuxEnabled(training_cfg, r3_t)
                            THEN AuxLossOf(training_cfg, PerRes(e), loss_mask, reward)
                            ELSE PerRes(F(0))
    /\ pc' = "total"
    /\ UNCHANGED <<call, solverVars, batchVars, loss_mask, model_calls, rewardVars,
                   eta_t, sigma_t, trans_adjoint, trans_loss, rot_adjoint,
                   rots_vf_loss, se3_vf_loss, outcome>>

\* line 231: se3_vf_loss = trans_loss + rots_vf_loss + auxiliary_loss
TotalLoss(tl, rl, al) ==
    [b \in Ex |-> [n \in Res |-> FAdd(FAdd(tl[b], rl[b]), al[b][n])]]

\* the check of the total loss left out
LossCheckDropped(total) == FALSE

\* line 233: torch.any(torch.isnan(se3_vf_loss))
LossCheckFails(total) == \E b \in Ex, n \in Res : IsNaN(total[b][n])

\* lines 231-244
Finish ==
    /\ pc = "total"
    /\ se3_vf_loss' = TotalLoss(trans_loss, rots_vf_loss, auxiliary_loss)
    /\ IF LossCheckFails(se3_vf_loss')
       THEN /\ outcome' = ValueError("NaN loss encountered")
            /\ pc' = "raised"
       ELSE /\ outcome' = [kind |-> "record",
                           trans_loss |-> trans_loss,
                           auxiliary_loss |-> auxiliary_loss,
                           rots_vf_loss |-> rots_vf_loss,
                           se3_vf_loss |-> se3_vf_loss',
                           diversity_reward |-> diversity_reward,
                           validity_reward |-> validity_reward,
                           total_reward |-> reward]
            /\ pc' = "returned"
    /\ UNCHANGED <<call, solverVars, batchVars, loss_mask, model_calls, rewardVars,
                   eta_t, sigma_t, trans_adjoint, trans_loss, rot_adjoint,
                   rots_vf_loss, auxiliary_loss>>

Init ==
    /\ pc = "start"
    /\ call = "none"
    /\ res_mask \in {BatchMask(f, r) : f \in {"full", "first"}, r \in MaskKinds}
    /\ diffuse_mask \in {BatchMask("full", "full"), BatchMask("tail", "tail")}
    /\ r3_t \in {BatchTime(f, r) : f \in {Quarter, ThreeQuarters},
                                   r \in {Quarter, ThreeQuarters}}
    /\ so3_t = BatchTime(Quarter, Quarter)
    /\ trans_t = Full(F(0))
    /\ training_cfg \in {[translation_loss_weight |-> tw,
                          rotation_loss_weights |-> F(1),
                          aux_loss_weight |-> w] : tw \in {F(1), F(0)}, w \in {F(0), F(1)}}
    /\ drift = None /\ x_t = None /\ t = None /\ mask = None
    /\ a_t = None /\ curr_x = None /\ k = 0 /\ adjoint_states = <<>>
    /\ eval_times = <<>> /\ result = None
    /\ loss_mask = None /\ model_calls = 0
    /\ pred_trans_1 = None /\ bond_lengths = None /\ validity_reward = None
    /\ diversity_reward = None /\ reward = None
    /\ eta_t = None /\ sigma_t = None /\ trans_adjoint = None /\ trans_loss = None
    /\ rot_adjoint = None /\ rots_vf_loss = None /\ auxiliary_loss = None
    /\ se3_vf_loss = None /\ outcome = None

Next ==
    \/ MaskCheck \/ RunModel \/ ComputeReward \/ ComputeSchedule
    \/ CallTransSolve \/ SolveBegin \/ SolveStep \/ SolveReturn
    \/ TransLoss \/ CallRotSolve \/ RotLoss \/ AuxLoss \/ Finish

Spec == Init /\ [][Next]_vars

(***************************************************************************)
(* A direct call solve_adjoint_state(drift, x_t, t, mask).                 *)
(***************************************************************************)
InitSolver ==
    /\ pc = "solve_begin"
    /\ call = "direct"
    /\ drift \in DirectDrifts
    /\ x_t \in {Full(F(0)), Full(F(1))}
    /\ t \in {BatchTime(Quarter, Quarter), BatchTime(ThreeQuarters, Quarter),
              BatchTime(F(1), F(0))}
    /\ mask \in {BatchMask(f, r) : f \in MaskKinds \cup {"tail"}, r \in MaskKinds}
    /\ a_t = None /\ curr_x = None /\ k = 0 /\ adjoint_states = <<>>
    /\ eval_times = <<>> /\ result = None
    /\ res_mask = None /\ diffuse_mask = None /\ r3_t = None /\ so3_t = None
    /\ trans_t = None /\ training_cfg = None
    /\ loss_mask = None /\ model_calls = 0
    /\ pred_trans_1 = None /\ bond_lengths = None /\ validity_reward = None
    /\ diversity_reward = None /\ reward = None
    /\ eta_t = None /\ sigma_t = None /\ trans_adjoint = None /\ trans_loss = None
    /\ rot_adjoint = None /\ rots_vf_loss = None /\ auxiliary_loss = None
    /\ se3_vf_loss = None /\ outcome = None

NextSolver == SolveBegin \/ SolveStep \/ SolveReturn

SpecSolver == InitSolver /\ [][NextSolver]_vars


(***************************************************************************)
(* The noise schedule on its own: lines 176-181 for a grid of times.       *)
(***************************************************************************)
TimeGrid == {Fin(i, TimeDen) : i \in 0..TimeDen}

InitSchedule ==
    /\ pc = "schedule"
    /\ call = "none"
    /\ r3_t \in {BatchTime(f, r) : f \in TimeGrid, r \in TimeGrid}
    /\ res_mask = BatchMask("full", "full")
    /\ diffuse_mask = BatchMask("full", "full")
    /\ so3_t = BatchTime(Quarter, Quarter)
    /\ trans_t = Full(F(0))
    /\ training_cfg = [translation_loss_weight |-> F(1),
                       rotation_loss_weights |-> F(1),
                       aux_loss_weight |-> F(1)]
    /\ drift = None /\ x_t = None /\ t = None /\ mask = None
    /\ a_t = None /\ curr_x = None /\ k = 0 /\ adjoint_states = <<>>
    /\ eval_times = <<>> /\ result = None
    /\ loss_mask = BatchMask("full", "full") /\ model_calls = 1
    /\ pred_trans_1 = Full(F(1))
    /\ bond_lengths = Geometry("native").bonds
    /\ diversity_reward = Geometry("native").dists
    /\ validity_reward = ValidityReward(bond_lengths)
    /\ reward = Reward(diversity_reward, validity_reward)
    /\ eta_t = None /\ sigma_t = None /\ trans_adjoint = None /\ trans_loss = None
    /\ rot_adjoint = None /\ rots_vf_loss = None /\ auxiliary_loss = None
    /\ se3_vf_loss = None /\ outcome = None

NextSchedule == ComputeSchedule

SpecSchedule == InitSchedule /\ [][NextSchedule]_vars


(***************************************************************************)
(* Properties.                                                             *)
(***************************************************************************)
Solving == pc \in {"solve_loop", "solve_done", "trans_loss", "rot_loss"}

\* some example has no residue with res_mask * diffuse_mask = 1
HasEmptyExample ==
    /\ res_mask # None
    /\ \E b \in Ex : \A n \in Res : res_mask[b][n] * diffuse_mask[b][n] = 0

\* C1: when some example's effective mask sums to less than 1, model_step ends
\* in the 'Empty batch encountered' error: the model is never invoked, no
\* reward and no adjoint solve is computed, no loss record is returned.
C1_EmptyBatchRejected ==
    (HasEmptyExample /\ pc # "start") =>
        /\ pc = "raised"
        /\ outcome = ValueError("Empty batch encountered")
        /\ model_calls = 0
        /\ reward = None /\ validity_reward = None /\ diversity_reward = None
        /\ adjoint_states = <<>> /\ eval_times = <<>> /\ result = None
        /\ trans_loss = None /\ se3_vf_loss = None

\* a batch with one empty and one non-empty example has been rejected
C1_Witness ==
    /\ pc = "raised"
    /\ HasEmptyExample
    /\ \E b \in Ex : MaskSum(loss_mask[b]) >= 1
    /\ outcome = ValueError("Empty batch encountered")

NoRecordReturned ==
    /\ pc # "returned"
    /\ trans_loss # None => \A b \in Ex : IsNaN(trans_loss[b])

\* C4: on every residue with mask = 0 the costate is exactly zero, initially,
\* after every integration step and in the returned value.
C4_MaskedCostateZero ==
    Solving =>
        \A b \in Ex, n \in Res : mask[b][n] = 0 =>
            \A c \in Coord :
                /\ a_t[b][n][c] = F(0)
                /\ result # None => result[b][n][c] = F(0)

\* C5: with a drift that is zero everywhere the costate stays at the masked
\* terminal value (-1 on valid residues, 0 on masked ones) through every step
\* and in the returned value, and the shadow state stays at x_t.
C5_ZeroDriftKeepsTerminal ==
    (pc \in {"solve_loop", "solve_done"} /\ ZeroDrift(drift)) =>
        /\ \A b \in Ex, n \in Res, c \in Coord :
              /\ a_t[b][n][c] = (IF mask[b][n] = 1 THEN F(-1) ELSE F(0))
              /\ pc = "solve_done" =>
                    result[b][n][c] = (IF mask[b][n] = 1 THEN F(-1) ELSE F(0))
        /\ curr_x = x_t

\* a zero-drift solve over a mask with valid and masked residues has returned
C5_Witness ==
    /\ pc = "solve_done"
    /\ ZeroDrift(drift)
    /\ k = NumTimesteps - 1
    /\ \E b \in Ex, n \in Res : mask[b][n] = 0
    /\ \E b \in Ex, n \in Res : mask[b][n] = 1 /\ result[b][n][1] = F(-1)

\* C6: the auxiliary loss of an example whose own translation time is <= 0.5,
\* or of any example when the auxiliary weight is <= 0, is exactly 0.
C6_AuxOnlyPastHalf ==
    auxiliary_loss # None =>
        \A b \in Ex :
            (FLe(r3_t[b], Half) \/ FLe(training_cfg.aux_loss_weight, F(0))) =>
                \A n \in Res : auxiliary_loss[b][n] = F(0)

\* the fraction of an example's spacings, over all its residues, that lie
\* strictly between 1.0 and 2.0
RECURSIVE ValidUpTo(_, _)
ValidUpTo(row, n) ==
    IF n = 0 THEN 0 ELSE CountValid(row[n], Len(row[n])) + ValidUpTo(row, n - 1)
ExampleValidity(b) ==
    Fin(ValidUpTo(bond_lengths[b], MaxRes), MaxRes * (NumBBAtoms - 1))

\* C7: the validity term is one value per example, the fraction of that
\* example's spacings over all its residues that are valid, and the combined
\* reward 2.0 * diversity + 1.0 * validity is one value per example.
C7_RewardPerExample ==
    reward # None =>
        \A b \in Ex :
            /\ \A n \in Res : validity_reward[b][n] = ExampleValidity(b)
            /\ \A n \in Res :
                  reward[b][n] = FAdd(FMul(F(2), diversity_reward[b]), ExampleValidity(b))
            /\ Cardinality({reward[b][n] : n \in Res}) = 1

InsideUnitInterval(tv) == FGt(tv, F(0)) /\ FLt(tv, F(1))

\* C8 as stated: for t in (0,1) eta equals (1-t)*t and sigma is real.
C8_EtaIsProduct ==
    eta_t # None =>
        \A b \in Ex : InsideUnitInterval(r3_t[b]) =>
            /\ eta_t[b] = FMul(FSub(F(1), r3_t[b]), r3_t[b])
            /\ FLe(F(0), eta_t[b])
            /\ FLe(F(0), sigma_t[b])

\* C8 as amended: for t in (0,1) eta equals (1-t)/t, is non-negative, and
\* sigma = sqrt(2*eta) is real and non-negative.
C8_EtaIsQuotient ==
    eta_t # None =>
        \A b \in Ex : InsideUnitInterval(r3_t[b]) =>
            /\ eta_t[b] = FDiv(FSub(F(1), r3_t[b]), r3_t[b])
            /\ FLe(F(0), eta_t[b])
            /\ FLe(F(0), sigma_t[b])

\* the schedule has been evaluated at t = 1/4, where (1-t)/t = 3 and (1-t)*t = 3/16
C8_Witness ==
    /\ eta_t # None
    /\ r3_t[1] = Quarter
    /\ eta_t[1] = F(3)
    /\ FLe(F(0), sigma_t[1])

\* C9: the solve makes exactly 19 steps; step i evaluates the drift at the grid
\* time (20-i)/19 > 0 whatever the caller's t is; the trajectory has one more
\* element than steps made, 20 at the end; the last element is returned.
C9_FixedGrid ==
    /\ pc \in {"solve_loop", "solve_done"} =>
          /\ k \in 0..19
          /\ Len(eval_times) = k
          /\ Len(adjoint_states) = k + 1
          /\ \A i \in 1..Len(eval_times) : \A b \in Ex :
                /\ eval_times[i][b] = Fin(20 - i, 19)
                /\ FGt(eval_times[i][b], F(0))
    /\ pc = "solve_done" =>
          /\ k = 19
          /\ Len(adjoint_states) = 20
          /\ result = adjoint_states[20]
          /\ result = a_t

\* a solve called with t = 1 for one example and t = 0 for the others returned
C9_Witness ==
    /\ pc = "solve_done"
    /\ Len(eval_times) = 19
    /\ Len(adjoint_states) = 20
    /\ t[1] = F(1)
    /\ eval_times[19][1] = Fin(1, 19)

\* C10: during the translation solve and at the instantaneous evaluation the
\* translation drift is evaluated only at times strictly below 1, so that
\* 1 - t is never zero.
C10_NoSingularEvaluation ==
    call = "trans" =>
        \A i \in 1..Len(eval_times) : \A b \in Ex :
            /\ FLt(eval_times[i][b], F(1))
            /\ FSub(F(1), eval_times[i][b]) # F(0)

====
